---- MODULE Spec2Model ----
(***************************************************************************)
(* Customer-segmentation pipeline: the model registry (src/database.py),   *)
(* the training run that fills it (src/train.py), the API readers          *)
(* (src/api.py) and the drift monitor (src/model_monitor.py with           *)
(* src/email_service.py).                                                  *)
(*                                                                         *)
(* The specifications, over the same variables:                            *)
(*   Spec         training runs, registry writes and API readers           *)
(*   SpecWriters  training runs and registry writes alone                  *)
(*   SpecMonitor  ModelMonitor as api.py constructs it, check_model_health *)
(*   SpecAssigned the same monitor with alert_recipients assigned on the   *)
(*                object by its owner                                      *)
(*   SpecCompare  monitor_model_performance on arbitrary label sequences   *)
(*   SpecDrift    detect_data_drift on concrete samples, next to           *)
(*                monitor_model_performance                                *)
(*   SpecServe    training runs that write the artifact files, with        *)
(*                /api/predict and check_model_health reading them         *)
(*   SpecPreprocess preprocess_data on frames with absent columns and NaN  *)
(*   SpecFit      the K-means and DBSCAN fits of a run and their scores    *)
(*   SpecDensity  perform_dbscan on one dataset with varying eps and       *)
(*                min_samples                                              *)
(*   SpecReduce   perform_pca on matrices of every small shape             *)
(***************************************************************************)
EXTENDS Integers, Sequences, FiniteSets, TLC

(* ------------------------------ bounds -------------------------------- *)

\* training runs that may be started
MaxRuns == 2
\* rows of the dataset (one customer per row)
NumCustomers == 2
\* seconds the wall clock may advance (CURRENT_TIMESTAMP has 1 s resolution)
MaxTime == 1

(* ------------------------- program constants -------------------------- *)

\* KMeans(n_clusters=4, random_state=42)
n_clusters == 4

\* Python's None / a falsy user_id / a missing row id (AUTOINCREMENT ids start at 1)
None == 0

Customers == 1..NumCustomers
Kinds == {"kmeans", "dbscan"}
\* user_id argument of train_models: None (no registry write) or a user's id
UserIds == {None, 1}

\* the artifact files train_models dumps, in the order it dumps them
ArtifactFiles == <<"scaler", "pca", "kmeans", "dbscan", "features">>

VARIABLES
    clock,              \* wall clock, in seconds
    model_versions,     \* committed rows of table model_versions; the index is the id
    customer_segments,  \* committed rows of table customer_segments
    artifacts,          \* models/<file>.joblib: the run that wrote it, None if absent
    train,              \* the training run in progress: its number, position and locals
    lastSave,           \* the last save_customer_segments call and its return value
    reader,             \* the last API read of the registry
    config_file,        \* config/monitor_config.json: whether it exists, and its content
    monitor,            \* the ModelMonitor object's attributes
    health,             \* the last check_model_health call and its outcome
    compare,            \* the last monitor_model_performance call and its outcome
    drift,              \* the last detect_data_drift call and its outcome
    predict,            \* the last api.predict request and its response
    preprocess,         \* the last preprocess_data call and its outcome
    fit,                \* the dataset of the clustering fits, and what each fit gave
    density,            \* the last two perform_dbscan calls on that dataset
    reduce              \* the last perform_pca call and its outcome

vars == <<clock, model_versions, customer_segments, artifacts, train, lastSave,
          reader, config_file, monitor, health, compare, drift, predict,
          preprocess, fit, density, reduce>>

regVars == <<clock, model_versions, customer_segments, train, lastSave, reader>>
monVars == <<config_file, monitor, health>>
callVars == <<compare, drift, predict, preprocess, fit, density, reduce>>

(* ============================ the registry ============================ *)

\* labels fit_predict gives the rows of the (single, static) dataset
kmeans_labels(c) == (c - 1) % n_clusters
dbscan_labels(c) == IF c = 1 THEN -1 ELSE 0

Labels(kind, c) == IF kind = "kmeans" THEN kmeans_labels(c) ELSE dbscan_labels(c)

\* the DataFrame train_models hands to save_customer_segments, with the
\* model_version_id column save_customer_segments adds, in row order
SegmentRows(kind, model_version_id) ==
    [c \in Customers |-> [customer_id |-> c,
                          segment_id |-> Labels(kind, c),
                          model_version_id |-> model_version_id]]

\* INSERT INTO model_versions, overwriting the row of the same model_type
ReplaceModelVersion(table, row) ==
    IF \E i \in 1..Len(table) : table[i].model_type = row.model_type
    THEN LET i == CHOOSE j \in 1..Len(table) : table[j].model_type = row.model_type
         IN  [table EXCEPT ![i] = row]
    ELSE Append(table, row)

\* INSERT INTO model_versions (...) VALUES (...); id INTEGER PRIMARY KEY AUTOINCREMENT
InsertModelVersion(table, row) == Append(table, row)

\* DataFrame.to_sql that commits the rows written before the failure
to_sql_no_rollback(table, rows, written, ok) ==
    table \cup {rows[c] : c \in 1..written}

\* DataFrame.to_sql(..., if_exists='append') on a sqlite3 connection: the rows are
\* inserted in one transaction, committed at the end and rolled back on an exception.
\* `written` rows were inserted when the exception came (ok = FALSE).
to_sql(table, rows, written, ok) ==
    IF ok THEN table \cup {rows[c] : c \in DOMAIN rows} ELSE table

\* the rows of a kind, and get_latest_model_version's possible results: ORDER BY
\* created_at DESC LIMIT 1 leaves the choice among equal timestamps to SQLite
RowsOfKind(model_type) ==
    {i \in 1..Len(model_versions) : model_versions[i].model_type = model_type}

get_latest_model_version(model_type) ==
    IF RowsOfKind(model_type) = {} THEN {None}
    ELSE {i \in RowsOfKind(model_type) :
            \A j \in RowsOfKind(model_type) :
                model_versions[j].created_at <= model_versions[i].created_at}

\* the committed assignment rows of a version
SegmentsOf(model_version_id) ==
    {s \in customer_segments : s.model_version_id = model_version_id}

(* ----------------------------- training ------------------------------- *)

\* files train_models has dumped when it has passed `n` of its dump calls
FilesWritten(n) == {ArtifactFiles[i] : i \in 1..n}

\* train_models, lines 26-85: load, fit, dump the five artifacts, compute the
\* silhouette scores.  `failAt` is the number of dumps done when a step raises
\* (Len(ArtifactFiles) + 1: no step raises).
TrainFit(user_id, failAt) ==
    /\ train.pc \in {"idle", "returned", "raised"}
    /\ train.run < MaxRuns
    /\ artifacts' = [f \in DOMAIN artifacts |->
                        IF f \in FilesWritten(IF failAt > Len(ArtifactFiles)
                                              THEN Len(ArtifactFiles) ELSE failAt)
                        THEN train.run + 1 ELSE artifacts[f]]
    /\ train' = [run |-> train.run + 1, user_id |-> user_id,
                 kmeans |-> None, dbscan |-> None,
                 pc |-> IF failAt <= Len(ArtifactFiles) THEN "raised"
                        ELSE IF user_id # None THEN "save_kmeans_version"
                        ELSE "returned"]
    /\ UNCHANGED <<clock, model_versions, customer_segments, lastSave, reader>>
    /\ UNCHANGED <<monVars, callVars>>

\* Database.save_model_version called from train_models (lines 90-111).
\* ok = FALSE: the INSERT raises, the error is logged and None is returned.
SaveModelVersion(kind, ok) ==
    /\ train.pc = "save_" \o kind \o "_version"
    /\ model_versions' =
          IF ok THEN InsertModelVersion(model_versions,
                        [version |-> <<kind, clock>>,
                         model_type |-> kind,
                         performance_metrics |-> train.run,
                         created_at |-> clock,
                         created_by |-> train.user_id])
          ELSE model_versions
    /\ train' = [train EXCEPT ![kind] = IF ok THEN Len(model_versions') ELSE None,
                              !.pc = IF kind = "kmeans" THEN "save_dbscan_version"
                                     ELSE "save_kmeans_segments"]
    /\ UNCHANGED <<clock, customer_segments, artifacts, lastSave, reader>>
    /\ UNCHANGED <<monVars, callVars>>

\* Database.save_customer_segments called from train_models (lines 113-126).
\* `written` rows are in the open transaction when to_sql raises (fails = TRUE, at
\* a row or, with all rows written, at the commit); the error is logged and False
\* returned, which train_models ignores;
\* a NULL model_version_id violates NOT NULL on the first row.
SaveCustomerSegments(kind, written, fails) ==
    /\ train.pc = "save_" \o kind \o "_segments"
    /\ train[kind] = None => (fails /\ written = 0)
    /\ ~fails => written = NumCustomers
    /\ customer_segments' = to_sql(customer_segments,
                                   SegmentRows(kind, train[kind]), written, ~fails)
    /\ lastSave' = [model_version_id |-> train[kind], written |-> written,
                    returned |-> ~fails]
    /\ train' = [train EXCEPT !.pc = IF kind = "kmeans" THEN "save_dbscan_segments"
                                     ELSE "returned"]
    /\ UNCHANGED <<clock, model_versions, artifacts, reader>>
    /\ UNCHANGED <<monVars, callVars>>

\* the wall clock passes a second boundary
Tick ==
    /\ clock < MaxTime
    /\ clock' = clock + 1
    /\ UNCHANGED <<model_versions, customer_segments, artifacts, train, lastSave, reader>>
    /\ UNCHANGED <<monVars, callVars>>

(* ------------------------------ readers ------------------------------- *)

\* api.get_segments (and get_model_status up to its lookup): the latest version of
\* the kind is looked up; ok = FALSE: the SELECT raises and None is returned.
\* Database has no get_segments method, so the handler answers 500 either way.
GetSegments(kind, ok) ==
    /\ \E latest \in (IF ok THEN get_latest_model_version(kind) ELSE {None}) :
          reader' = [model_type |-> kind, latest_model |-> latest, status |-> 500]
    /\ UNCHANGED <<clock, model_versions, customer_segments, artifacts, train, lastSave>>
    /\ UNCHANGED <<monVars, callVars>>

(* ============================ the monitor ============================= *)

\* the columns the scaler was fitted on (a bounded stand-in for the 13 of
\* preprocess_data), and the column sets a caller's DataFrame may carry
NumFeatures == 2
Features == 1..NumFeatures
ColumnSets == {Features, Features \cup {0}, Features \ {1}}

\* significance values ks_2samp may report for a feature, in thousandths
PValues == {30, 50, 70}
\* self.config.get('drift_threshold', 0.05), in thousandths
DefaultDriftThreshold == 50

Recipients == {"ops", "lead"}

\* a Python dict with no keys
EmptyDict == [k \in {} |-> None]

\* dict.get(key, default)
DictGet(d, key, default) == IF key \in DOMAIN d THEN d[key] ELSE default

\* contents config/monitor_config.json may have (config_manager.py documents the
\* keys drift_threshold and alert_recipients)
ConfigContents ==
    { EmptyDict,
      [alert_recipients |-> <<"ops">>],
      [drift_threshold |-> 10, alert_recipients |-> <<"ops">>],
      [drift_threshold |-> 100, alert_recipients |-> <<"ops", "lead">>] }

ConfigFiles ==
    {[exists |-> FALSE, content |-> EmptyDict]}
        \cup {[exists |-> TRUE, content |-> c] : c \in ConfigContents}

\* the names model_monitor.py binds at module level (its imports, lines 1-8)
ModuleNames == {"np", "pd", "stats", "datetime", "timedelta", "joblib", "Path",
                "logger", "EmailService", "ModelMonitor"}

\* ModelMonitor._load_config: {} when the file is missing; otherwise json.load(f),
\* where evaluating the name json raises NameError unless the module binds it, and
\* the except clause returns {}
_load_config(file) ==
    IF ~file.exists THEN EmptyDict
    ELSE IF "json" \in ModuleNames THEN file.content
    ELSE EmptyDict

\* ModelMonitor.__init__
ModelMonitorInit(file) ==
    LET config == _load_config(file)
    IN  [drift_threshold |-> DictGet(config, "drift_threshold", DefaultDriftThreshold),
         alert_recipients |-> DictGet(config, "alert_recipients", <<>>)]

\* the Python type of each value of a feature's drift report: ks_2samp returns
\* numpy floats, and numpy.float64 < float is a numpy.bool_
PyType(field) == IF field = "drift_detected" THEN "numpy.bool_" ELSE "numpy.float64"

\* json.dumps serialises float (numpy.float64 subclasses it), int, bool, str, None,
\* list and dict; any other type raises TypeError
JsonSerializable(fields) ==
    \A field \in fields : PyType(field) \in {"numpy.float64", "float", "int", "bool", "str"}

\* ModelMonitor.detect_data_drift; p_value[f] is what ks_2samp reports for feature f
detect_data_drift(p_value, features, drift_threshold) ==
    [f \in features |-> [p_value |-> p_value[f],
                         drift_detected |-> p_value[f] < drift_threshold]]

\* all(...) in place of any(...)
all_drift_detected(drift_metrics) ==
    \A f \in DOMAIN drift_metrics : drift_metrics[f].drift_detected

\* any(metric['drift_detected'] for metric in drift_metrics.values())
any_drift_detected(drift_metrics) ==
    \E f \in DOMAIN drift_metrics : drift_metrics[f].drift_detected

(* ---------------------- monitor_model_performance --------------------- *)

\* longest label sequence handed to monitor_model_performance
MaxLen == 2
\* cluster labels: -1 is the density engine's noise label
LabelValues == -1..2
LabelSeqs(labels) == UNION {[1..n -> labels] : n \in 1..MaxLen}

RECURSIVE SumSeq(_)
SumSeq(s) == IF Len(s) = 0 THEN 0 ELSE Head(s) + SumSeq(Tail(s))

Abs(x) == IF x < 0 THEN -x ELSE x
Maximum(S) == CHOOSE x \in S : \A y \in S : y <= x
Minimum(S) == CHOOSE x \in S : \A y \in S : x <= y
Range(s) == {s[i] : i \in DOMAIN s}

\* whether numpy broadcasts two one-dimensional shapes, and an array at an index
\* of the broadcast shape
Broadcasts(m, n) == m = n \/ m = 1 \/ n = 1
At(a, i) == IF Len(a) = 1 THEN a[1] ELSE a[i]
BroadcastLen(a, b) == IF Len(a) >= Len(b) THEN Len(a) ELSE Len(b)

\* np.bincount(x) for non-negative x: counts of 0..max(x)
bincount(x) ==
    [v \in 1..(Maximum(Range(x)) + 1) |-> Cardinality({i \in DOMAIN x : x[i] = v - 1})]

\* np.mean(current_predictions == reference_predictions) as <<numerator, denominator>>
accuracy(current_predictions, reference_predictions) ==
    LET n == BroadcastLen(current_predictions, reference_predictions)
    IN  <<Cardinality({i \in 1..n : At(current_predictions, i) = At(reference_predictions, i)}),
          n>>

\* np.sum(np.abs(current_dist - reference_dist)) of the normalised histograms, as
\* <<numerator, denominator>>
distribution_difference(current_predictions, reference_predictions) ==
    LET current_dist == bincount(current_predictions)
        reference_dist == bincount(reference_predictions)
        n == BroadcastLen(current_dist, reference_dist)
    IN  <<SumSeq([i \in 1..n |->
                    Abs(At(current_dist, i) * Len(reference_predictions)
                        - At(reference_dist, i) * Len(current_predictions))]),
          Len(current_predictions) * Len(reference_predictions)>>

\* a call that raised ValueError and gave no metrics, and the place of metrics
\* where no call has given any
NoMetrics == [raised |-> "ValueError", accuracy |-> <<0, 1>>,
              distribution_difference |-> <<0, 1>>]
Unset == [NoMetrics EXCEPT !.raised = ""]

\* ModelMonitor.monitor_model_performance: the outcomes a build can produce.
\* Arrays whose shapes do not broadcast compare to the scalar False under
\* numpy < 1.25 (mean 0.0) and raise ValueError from 1.25 on.
monitor_model_performance(current_predictions, reference_predictions) ==
    LET cur == current_predictions
        ref == reference_predictions
        acc == IF Broadcasts(Len(cur), Len(ref)) THEN {accuracy(cur, ref)}
               ELSE {<<0, 1>>}
        eqRaises == IF Broadcasts(Len(cur), Len(ref)) THEN {FALSE} ELSE {FALSE, TRUE}
    IN  UNION {
          IF raises THEN {NoMetrics}
          ELSE IF \E i \in DOMAIN cur : cur[i] < 0 THEN {NoMetrics}
          ELSE IF \E i \in DOMAIN ref : ref[i] < 0 THEN {NoMetrics}
          ELSE IF ~Broadcasts(Len(bincount(cur)), Len(bincount(ref))) THEN {NoMetrics}
          ELSE {[raised |-> "", accuracy |-> a,
                 distribution_difference |-> distribution_difference(cur, ref)] : a \in acc}
          : raises \in eqRaises }

\* a direct call of monitor_model_performance and what it gave; the caller takes
\* the result before the next call (CompareDone)
IdleCompare == [status |-> "idle", current_predictions |-> <<>>,
                reference_predictions |-> <<>>, result |-> Unset]

MonitorModelPerformance(current_predictions, reference_predictions) ==
    /\ compare.status = "idle"
    /\ \E result \in monitor_model_performance(current_predictions, reference_predictions) :
          compare' = [status |-> IF result.raised = "" THEN "returned" ELSE "raised",
                      current_predictions |-> current_predictions,
                      reference_predictions |-> reference_predictions,
                      result |-> result]
    /\ UNCHANGED <<regVars, artifacts, monVars>>
    /\ UNCHANGED <<drift, predict, preprocess, fit, density, reduce>>

CompareDone ==
    /\ compare.status # "idle"
    /\ compare' = IdleCompare
    /\ UNCHANGED <<regVars, artifacts, monVars>>
    /\ UNCHANGED <<drift, predict, preprocess, fit, density, reduce>>

(* --------------------------- detect_data_drift ------------------------ *)

\* two of the columns preprocess_data names, as the columns of the frames handed
\* to detect_data_drift
DriftColumns == {"Income", "Recency"}

\* the values of one feature in the reference and in the current batch of the
\* drift-monitor scenario
ReferenceScenario == <<10, 12, 11, 13, 9>>
CurrentScenario == <<50, 52, 51, 53, 49>>

\* the columns a frame may have: up to MaxLen values, or a scenario sample; a
\* frame's columns have the same number of rows
SampleValues == {1, 2}
ColumnValues ==
    UNION {[1..n -> SampleValues] : n \in 1..MaxLen}
        \cup {ReferenceScenario, CurrentScenario}
Frames ==
    {frame \in [DriftColumns -> ColumnValues] :
        \A f, g \in DriftColumns : Len(frame[f]) = Len(frame[g])}

\* number of values of a sample that are <= x (n times its empirical CDF at x)
CountLE(data, x) == Cardinality({i \in DOMAIN data : data[i] <= x})

\* lattice paths from (0, 0) to (i, j) all of whose points (a, b) have
\* |a/n1 - b/n2| < h / (n1 * n2)
RECURSIVE PathsInside(_, _, _, _, _)
PathsInside(i, j, n1, n2, h) ==
    IF Abs(i * n2 - j * n1) >= h THEN 0
    ELSE IF i = 0 /\ j = 0 THEN 1
    ELSE (IF i > 0 THEN PathsInside(i - 1, j, n1, n2, h) ELSE 0)
       + (IF j > 0 THEN PathsInside(i, j - 1, n1, n2, h) ELSE 0)

RECURSIVE Binomial(_, _)
Binomial(n, k) ==
    IF k = 0 \/ k = n THEN 1 ELSE Binomial(n - 1, k - 1) + Binomial(n - 1, k)

\* a ks_2samp that reports the probability of a smaller distance as its p-value
ks_2samp_complement(data1, data2) ==
    LET n1 == Len(data1)
        n2 == Len(data2)
        h == Maximum({Abs(CountLE(data1, x) * n2 - CountLE(data2, x) * n1) :
                        x \in Range(data1) \cup Range(data2)})
        total == Binomial(n1 + n2, n1)
    IN  [statistic |-> <<h, n1 * n2>>,
         pvalue |-> <<PathsInside(n1, n2, n1, n2, h), total>>]

\* scipy.stats.ks_2samp(data1, data2), two-sided; for samples of up to 10000 values
\* the p-value is exact: the probability, over the orderings of the pooled sample,
\* of a distance between the empirical CDFs as large as the one observed.
\* Statistic and p-value as <<numerator, denominator>>.
ks_2samp(data1, data2) ==
    LET n1 == Len(data1)
        n2 == Len(data2)
        h == Maximum({Abs(CountLE(data1, x) * n2 - CountLE(data2, x) * n1) :
                        x \in Range(data1) \cup Range(data2)})
        total == Binomial(n1 + n2, n1)
    IN  [statistic |-> <<h, n1 * n2>>,
         pvalue |-> <<total - PathsInside(n1, n2, n1, n2, h), total>>]

\* a ratio in thousandths, rounded down (x < t iff floor(x) < t for a whole t)
Thousandths(ratio) == (1000 * ratio[1]) \div ratio[2]

\* a direct call of detect_data_drift(current_data, reference_data,
\* current_data.columns) and the reports it gave
IdleDrift == [status |-> "idle", current_data |-> EmptyDict,
              reference_data |-> EmptyDict, drift_metrics |-> EmptyDict]

DetectDataDrift(current_data, reference_data) ==
    /\ drift.status = "idle"
    /\ drift' =
          [status |-> "returned",
           current_data |-> current_data,
           reference_data |-> reference_data,
           drift_metrics |->
               detect_data_drift(
                   [f \in DOMAIN current_data |->
                       Thousandths(ks_2samp(current_data[f], reference_data[f]).pvalue)],
                   DOMAIN current_data, monitor.drift_threshold)]
    /\ UNCHANGED <<regVars, artifacts, monVars>>
    /\ UNCHANGED <<compare, predict, preprocess, fit, density, reduce>>

DriftDone ==
    /\ drift.status # "idle"
    /\ drift' = IdleDrift
    /\ UNCHANGED <<regVars, artifacts, monVars>>
    /\ UNCHANGED <<compare, predict, preprocess, fit, density, reduce>>

(* -------------------------- check_model_health ------------------------ *)

\* labels KMeans.predict can give, and what monitor_model_performance can make of
\* the predictions for two frames of 1..MaxLen rows each
KmeansLabels == 0..(n_clusters - 1)
PerformanceOutcomes ==
    UNION {monitor_model_performance(current_predictions, reference_predictions) :
             current_predictions \in LabelSeqs(KmeansLabels),
             reference_predictions \in LabelSeqs(KmeansLabels)}

IdleHealth == [status |-> "idle", model_type |-> "", failed_step |-> "", error |-> "",
               drift_metrics |-> EmptyDict, performance_metrics |-> Unset,
               significant_drift |-> FALSE, drift_alerts |-> <<>>, system_alerts |-> <<>>,
               scaler_inputs |-> {}]

\* the first of lines 83-97 that raises, "" if none does: joblib.load of a file that
\* is not there, scaler.transform of a frame whose columns are not the fitted ones,
\* predict on a model that has none (DBSCAN)
PipelineFailure(model_type, current_columns, reference_columns) ==
    IF \E f \in {model_type, "scaler", "pca"} : artifacts[f] = None THEN "joblib.load"
    ELSE IF current_columns # Features THEN "scaler.transform(current_data)"
    ELSE IF reference_columns # Features THEN "scaler.transform(reference_data)"
    ELSE IF model_type # "kmeans" THEN "model.predict"
    ELSE ""

ErrorOf(step) ==
    CASE step = "joblib.load" -> "FileNotFoundError"
      [] step = "model.predict" -> "AttributeError"
      [] step = "send_model_drift_alert" -> "TypeError"
      [] OTHER -> "ValueError"

\* EmailService.send_model_drift_alert: the body is formatted with
\* json.dumps(drift_metrics) outside any try; send_email itself catches every
\* exception and returns False.  TRUE iff the call raises.
send_model_drift_alert_raises(drift_metrics) ==
    \E f \in DOMAIN drift_metrics : ~JsonSerializable(DOMAIN drift_metrics[f])

\* the except clause of check_model_health (lines 136-144): a system alert per
\* recipient (send_system_alert formats plain strings and cannot raise), then raise.
\* The caller gets the exception and none of the result's fields.
Raised(model_type, step, drift_alerts) ==
    [IdleHealth EXCEPT !.status = "raised", !.model_type = model_type,
                       !.failed_step = step, !.error = ErrorOf(step),
                       !.drift_alerts = drift_alerts,
                       !.system_alerts = monitor.alert_recipients]

\* lines 99-134 once the predictions are there
HealthOutcome(model_type, p_value, performance_metrics) ==
    LET drift_metrics == detect_data_drift(p_value, Features, monitor.drift_threshold)
        significant_drift == any_drift_detected(drift_metrics)
    IN  IF performance_metrics.raised # ""
        THEN Raised(model_type, "monitor_model_performance", <<>>)
        ELSE IF /\ significant_drift
                /\ monitor.alert_recipients # <<>>
                /\ send_model_drift_alert_raises(drift_metrics)
        THEN Raised(model_type, "send_model_drift_alert",
                    <<Head(monitor.alert_recipients)>>)
        ELSE [IdleHealth EXCEPT !.status = "returned", !.model_type = model_type,
                                !.drift_metrics = drift_metrics,
                                !.performance_metrics = performance_metrics,
                                !.significant_drift = significant_drift,
                                !.drift_alerts = IF significant_drift
                                                 THEN monitor.alert_recipients
                                                 ELSE <<>>]

\* the column sets of the frames check_model_health has handed to scaler.transform
\* (lines 89 and 92: the caller's frames as they are) when `step` is the first to fail
ScalerInputs(step, current_columns, reference_columns) ==
    IF step = "joblib.load" THEN {}
    ELSE IF step = "scaler.transform(current_data)" THEN {current_columns}
    ELSE {current_columns, reference_columns}

\* ModelMonitor.check_model_health(model_type, current_data, reference_data); the
\* frames enter through their columns, the significance ks_2samp gives each feature
\* and the labels the model predicts for their rows
CheckModelHealth(model_type, current_columns, reference_columns) ==
    /\ health.status = "idle"
    /\ LET step == PipelineFailure(model_type, current_columns, reference_columns)
           scaler_inputs == ScalerInputs(step, current_columns, reference_columns)
       IN  IF step # ""
           THEN health' = [Raised(model_type, step, <<>>)
                              EXCEPT !.scaler_inputs = scaler_inputs]
           ELSE \E p_value \in [Features -> PValues],
                   performance_metrics \in PerformanceOutcomes :
                  health' = [HealthOutcome(model_type, p_value, performance_metrics)
                                EXCEPT !.scaler_inputs = scaler_inputs]
    /\ UNCHANGED <<regVars, artifacts, config_file, monitor, callVars>>

\* the caller has the result (or the exception); the next call starts afresh
HealthDone ==
    /\ health.status # "idle"
    /\ health' = IdleHealth
    /\ UNCHANGED <<regVars, artifacts, config_file, monitor, callVars>>

(* ------------------------------ api.predict --------------------------- *)

IdlePredict == [status |-> "idle", model_type |-> "", failed_step |-> "",
                error |-> "", status_code |-> 0, scaler_inputs |-> {}]

\* the first of lines 69-83 of api.predict that raises, "" if none does: joblib.load
\* of a file that is not there, df[features] on rows without a fitted column,
\* predict on a model that has none (DBSCAN)
PredictFailure(model_type, columns) ==
    IF \E f \in {model_type, "scaler", "pca", "features"} : artifacts[f] = None
    THEN "joblib.load"
    ELSE IF ~(Features \subseteq columns) THEN "df[features]"
    ELSE IF model_type # "kmeans" THEN "model.predict"
    ELSE ""

PredictErrorOf(step) ==
    CASE step = "joblib.load" -> "FileNotFoundError"
      [] step = "df[features]" -> "KeyError"
      [] step = "model.predict" -> "AttributeError"
      [] OTHER -> ""

\* POST /predict/{model_type} with rows that carry `columns`: X = df[features] is
\* what the scaler gets; every exception becomes HTTPException(500)
Predict(model_type, columns) ==
    /\ predict.status = "idle"
    /\ LET step == PredictFailure(model_type, columns)
       IN  predict' = [status |-> IF step = "" THEN "returned" ELSE "raised",
                       model_type |-> model_type,
                       failed_step |-> step,
                       error |-> PredictErrorOf(step),
                       status_code |-> IF step = "" THEN 200 ELSE 500,
                       scaler_inputs |-> IF step \in {"", "model.predict"}
                                         THEN {Features} ELSE {}]
    /\ UNCHANGED <<regVars, artifacts, monVars>>
    /\ UNCHANGED <<compare, drift, preprocess, fit, density, reduce>>

\* the response is sent; the next request starts afresh
PredictDone ==
    /\ predict.status # "idle"
    /\ predict' = IdlePredict
    /\ UNCHANGED <<regVars, artifacts, monVars>>
    /\ UNCHANGED <<compare, drift, preprocess, fit, density, reduce>>

(* ---------------------------- preprocess_data ------------------------- *)

\* a cell of a DataFrame: <<v>> holds the number v, NaN is a missing value (an
\* empty CSV field, a key a row's dict does not have)
NaN == <<>>
Cells == {NaN, <<1>>, <<2>>}

\* the frames handed to preprocess_data: NumCustomers rows over one of the column
\* sets; the column that is no feature holds the same number in every row
FrameRows(columns) == {row \in [columns -> Cells] : 0 \in columns => row[0] = <<1>>}
DataFrames ==
    UNION {[columns : {columns}, rows : [Customers -> FrameRows(columns)]] :
             columns \in ColumnSets}

\* the numbers of a column, missing values left out, as a sequence over its rows
Present(df, f) == {c \in DOMAIN df.rows : df.rows[c][f] # NaN}

RECURSIVE SumOver(_, _, _)
SumOver(df, f, rows) ==
    IF rows = {} THEN 0
    ELSE LET c == CHOOSE r \in rows : TRUE
         IN  df.rows[c][f][1] + SumOver(df, f, rows \ {c})

RECURSIVE SumSquaresOver(_, _, _)
SumSquaresOver(df, f, rows) ==
    IF rows = {} THEN 0
    ELSE LET c == CHOOSE r \in rows : TRUE
         IN  df.rows[c][f][1] * df.rows[c][f][1] + SumSquaresOver(df, f, rows \ {c})

\* StandardScaler().fit_transform(df[features]): mean and population variance of
\* each column are taken over its present values (nanmean, nanvar), a zero variance
\* scales by 1, and a missing value stays missing.  A standardized value z is
\* written <<sign(z) * p, q>> with z * z = p / q.
fit_transform(df, features) ==
    [c \in DOMAIN df.rows |->
        [f \in features |->
            IF df.rows[c][f] = NaN THEN NaN
            ELSE LET n == Cardinality(Present(df, f))
                     sum == SumOver(df, f, Present(df, f))
                     centred == df.rows[c][f][1] * n - sum
                     nnvar == n * SumSquaresOver(df, f, Present(df, f)) - sum * sum
                 IN  IF nnvar = 0 THEN <<<<0, 1>>>>
                     ELSE <<<<(IF centred < 0 THEN -1 ELSE 1) * centred * centred,
                              nnvar>>>>]]

IdlePreprocess == [status |-> "idle", df |-> [columns |-> {}, rows |-> <<>>],
                   X |-> <<>>, error |-> "", names |-> {}]

\* preprocess_data(df): df[features] raises KeyError, whose message lists the
\* features the frame has no column for; otherwise the standardized matrix and
\* the feature list are returned
PreprocessData(df) ==
    /\ preprocess.status = "idle"
    /\ preprocess' =
          IF ~(Features \subseteq df.columns)
          THEN [status |-> "raised", df |-> df, X |-> <<>>, error |-> "KeyError",
                names |-> Features \ df.columns]
          ELSE [status |-> "returned", df |-> df, X |-> fit_transform(df, Features),
                error |-> "", names |-> {}]
    /\ UNCHANGED <<regVars, artifacts, monVars>>
    /\ UNCHANGED <<compare, drift, predict, fit, density, reduce>>

PreprocessDone ==
    /\ preprocess.status # "idle"
    /\ preprocess' = IdlePreprocess
    /\ UNCHANGED <<regVars, artifacts, monVars>>
    /\ UNCHANGED <<compare, drift, predict, fit, density, reduce>>

(* ------------------------- the clustering fits ------------------------ *)

\* rows of the projected matrix X_pca handed to the clustering engines
NumPoints == 11
\* DBSCAN(eps=0.5, min_samples=5); coordinates and eps are in tenths
eps == 5
min_samples == 5

\* the matrices X_pca: NumPoints rows with one coordinate each (a bounded stand-in
\* for the two principal components), in ascending order
PointValues == {0, 5, 10, 20}
RECURSIVE Ascending(_, _)
Ascending(n, least) ==
    IF n = 0 THEN {<<>>}
    ELSE UNION {{<<v>> \o rest : rest \in Ascending(n - 1, v)} :
                  v \in {w \in PointValues : w >= least}}
Matrices == Ascending(NumPoints, 0)

(* ratios <<numerator, denominator>> with a positive denominator *)
RECURSIVE GCD(_, _)
GCD(a, b) == IF b = 0 THEN a ELSE GCD(b, a % b)

Norm(q) ==
    IF q[1] = 0 THEN <<0, 1>>
    ELSE LET g == GCD(Abs(q[1]), q[2]) IN <<q[1] \div g, q[2] \div g>>

RAdd(p, q) == Norm(<<p[1] * q[2] + q[1] * p[2], p[2] * q[2]>>)

RECURSIVE RSumSeq(_)
RSumSeq(s) == IF Len(s) = 0 THEN <<0, 1>> ELSE RAdd(Head(s), RSumSeq(Tail(s)))

\* sum of the distances from row i to the rows in S
SumDist(X, i, S) == SumSeq([j \in DOMAIN X |-> IF j \in S THEN Abs(X[i] - X[j]) ELSE 0])

\* the rows that carry a label
RowsLabelled(labels, l) == {j \in DOMAIN labels : labels[j] = l}

\* sklearn.metrics.silhouette_samples for row i: (b - a) / max(a, b), a the mean
\* distance to the other rows of its label, b the least mean distance to the rows
\* of another label; 0 for a label with a single row; every label counts as a
\* cluster, -1 like any other
silhouette_sample(X, labels, i) ==
    LET dist == [l \in Range(labels) |-> SumDist(X, i, RowsLabelled(labels, l))]
        size == [l \in Range(labels) |-> Cardinality(RowsLabelled(labels, l))]
        others == Range(labels) \ {labels[i]}
        nearest == CHOOSE l \in others : \A l2 \in others :
                      dist[l] * size[l2] <= dist[l2] * size[l]
        a_scaled == dist[labels[i]] * size[nearest]
        b_scaled == dist[nearest] * (size[labels[i]] - 1)
    IN  IF size[labels[i]] = 1 THEN <<0, 1>>
        ELSE IF a_scaled = 0 /\ b_scaled = 0 THEN <<0, 1>>
        ELSE Norm(<<b_scaled - a_scaled,
                    IF a_scaled > b_scaled THEN a_scaled ELSE b_scaled>>)

\* sklearn.metrics.silhouette_score(X, labels): the mean of the samples' values;
\* ValueError unless 2 <= number of labels <= number of rows - 1
silhouette_score(X, labels) ==
    IF Cardinality(Range(labels)) < 2 \/ Cardinality(Range(labels)) > Len(X) - 1
    THEN [raised |-> "ValueError", value |-> <<0, 1>>]
    ELSE LET total == RSumSeq([i \in DOMAIN X |-> silhouette_sample(X, labels, i)])
         IN  [raised |-> "", value |-> Norm(<<total[1], total[2] * Len(X)>>)]

\* DBSCAN: the rows within eps of row i (itself included), the core rows, and the
\* core rows chained to a set of core rows through overlapping neighbourhoods
Neighbours(X, i, radius) == {j \in DOMAIN X : Abs(X[i] - X[j]) <= radius}

\* a core test that asks for exactly min_samples rows in the neighbourhood
CoreRowsExactly(X, radius, minimum) ==
    {i \in DOMAIN X : Cardinality(Neighbours(X, i, radius)) = minimum}

CoreRows(X, radius, minimum) ==
    {i \in DOMAIN X : Cardinality(Neighbours(X, i, radius)) >= minimum}

RECURSIVE Chained(_, _, _, _)
Chained(X, radius, core, S) ==
    LET next == S \cup {j \in core : \E i \in S : Abs(X[i] - X[j]) <= radius}
    IN  IF next = S THEN S ELSE Chained(X, radius, core, next)

\* DBSCAN(eps, min_samples).fit_predict(X): clusters are numbered from 0 in the
\* order of their first core row; a row that is not core gets the first cluster
\* with a core row in its neighbourhood, and -1 (noise) if there is none
dbscan_fit_predict(X, radius, minimum) ==
    LET core == CoreRows(X, radius, minimum)
        first == [i \in core |-> Minimum(Chained(X, radius, core, {i}))]
        firsts == {first[i] : i \in core}
        number == [i \in core |-> LET mine == first[i]
                                   IN  Cardinality({r \in firsts : r < mine})]
    IN  [i \in DOMAIN X |->
            IF i \in core THEN number[i]
            ELSE IF Neighbours(X, i, radius) \cap core = {} THEN -1
            ELSE Minimum({number[j] : j \in Neighbours(X, i, radius) \cap core})]

\* KMeans(n_clusters=4, random_state=42)
random_state == 42
\* KMeans' default max_iter
max_iter == 300

\* a generator seeded by the operating system: the stream of one seed or another
RandomStateUnseeded(seed) ==
    {[j \in 1..n_clusters |-> (entropy * j) % NumPoints] : entropy \in {seed, seed + 1}}

\* numpy.random.RandomState(seed): the draws the initialisation takes from it are
\* a fixed function of the seed (the formula stands in for the Mersenne twister)
RandomState(seed) == {[j \in 1..n_clusters |-> (seed * j) % NumPoints]}

\* the initial centres: one row per draw, taken among the rows that coincide with
\* no centre chosen so far (k-means++ gives such rows weight 0) while there are any
RECURSIVE init_centres(_, _, _)
init_centres(X, draws, chosen) ==
    IF Len(chosen) = Len(draws) THEN chosen
    ELSE LET fresh == {i \in DOMAIN X : \A c \in DOMAIN chosen : chosen[c] # <<X[i], 1>>}
             candidates == IF fresh = {} THEN DOMAIN X ELSE fresh
             rank == draws[Len(chosen) + 1] % Cardinality(candidates)
             row == CHOOSE i \in candidates :
                       Cardinality({c \in candidates : c < i}) = rank
         IN  init_centres(X, draws, Append(chosen, <<X[row], 1>>))

\* the centre nearest to x, the first of them on a tie (argmin)
NearestCentre(x, centres) ==
    LET d(c) == <<Abs(x * centres[c][2] - centres[c][1]), centres[c][2]>>
        nearest == {c \in DOMAIN centres : \A c2 \in DOMAIN centres :
                      d(c)[1] * d(c2)[2] <= d(c2)[1] * d(c)[2]}
    IN  Minimum(nearest)

\* Lloyd's iteration: assign every row to its nearest centre, move every centre to
\* the mean of its rows (a centre without rows stays), until the centres are
\* stable or max_iter iterations were made; labels are 0-based
RECURSIVE lloyd(_, _, _)
lloyd(X, centres, iterations) ==
    LET labels == [i \in DOMAIN X |-> NearestCentre(X[i], centres) - 1]
        moved == [c \in DOMAIN centres |->
                    IF RowsLabelled(labels, c - 1) = {} THEN centres[c]
                    ELSE Norm(<<SumSeq([i \in DOMAIN X |->
                                          IF labels[i] = c - 1 THEN X[i] ELSE 0]),
                                Cardinality(RowsLabelled(labels, c - 1))>>)]
    IN  IF moved = centres \/ iterations = 1 THEN labels
        ELSE lloyd(X, moved, iterations - 1)

\* KMeans(n_clusters, random_state).fit_predict(X): the label sequences a fit can
\* give, one per stream of draws the generator can produce
kmeans_fit_predict(X, seed) ==
    {lloyd(X, init_centres(X, draws, <<>>), max_iter) : draws \in RandomState(seed)}

IdleFit == [X_pca |-> <<>>, results |-> <<>>]

\* train_models, lines 57-84, on the projected matrix of the dataset: both engines
\* are fitted and both silhouette scores computed from X_pca and the labels as
\* fit_predict gave them; a ValueError of silhouette_score ends the run
FitModels ==
    /\ Len(fit.results) < MaxRuns
    /\ \E kmeans_result \in kmeans_fit_predict(fit.X_pca, random_state) :
          \E dbscan_result \in {dbscan_fit_predict(fit.X_pca, eps, min_samples)} :
          \E kmeans_score \in {silhouette_score(fit.X_pca, kmeans_result)} :
          \E dbscan_score \in {silhouette_score(fit.X_pca, dbscan_result)} :
              fit' = [fit EXCEPT !.results = Append(@,
                        [kmeans_labels |-> kmeans_result,
                         dbscan_labels |-> dbscan_result,
                         raised |-> IF kmeans_score.raised # "" THEN kmeans_score.raised
                                    ELSE dbscan_score.raised,
                         kmeans_score |-> kmeans_score.value,
                         dbscan_score |-> IF kmeans_score.raised # "" THEN <<0, 1>>
                                          ELSE dbscan_score.value])]
    /\ UNCHANGED <<regVars, artifacts, monVars>>
    /\ UNCHANGED <<compare, drift, predict, preprocess, density, reduce>>

(* ---------------------------- perform_dbscan -------------------------- *)

\* the eps (in tenths) and min_samples a caller of perform_dbscan may pass, the
\* defaults 0.5 and 5 among them
EpsValues == {3, eps, 10}
MinSamplesValues == {2, min_samples}

NoCall == [eps |-> 0, min_samples |-> 0, labels |-> <<>>]
IdleDensity == [previous |-> NoCall, current |-> NoCall]

\* perform_dbscan(X, eps, min_samples) on the projected dataset: the labels of
\* DBSCAN(eps=eps, min_samples=min_samples).fit_predict(X); the call before it is
\* kept for comparison
PerformDbscan(radius, minimum) ==
    /\ density' = [previous |-> density.current,
                   current |-> [eps |-> radius, min_samples |-> minimum,
                                labels |-> dbscan_fit_predict(fit.X_pca, radius, minimum)]]
    /\ UNCHANGED <<regVars, artifacts, monVars>>
    /\ UNCHANGED <<compare, drift, predict, preprocess, fit, reduce>>

(* ------------------------------ perform_pca --------------------------- *)

\* largest number of rows and of columns of a matrix handed to perform_pca
MaxDim == 4

\* the shapes <<n_samples, n_features>> of those matrices, and the n_components a
\* caller may ask for
Shapes == (1..MaxDim) \X (1..MaxDim)
ComponentCounts == (-1)..(MaxDim + 1)

\* PCA(n_components).fit_transform(X) for a whole n_components, by the shape of X:
\* ValueError unless 0 <= n_components <= min(n_samples, n_features); the
\* decomposition of the centred matrix has min(n_samples, n_features) components,
\* the first n_components of them are kept, and the output has a column for each
perform_pca(shape, n_components) ==
    LET n_samples == shape[1]
        n_features == shape[2]
        components == 1..(IF n_samples <= n_features THEN n_samples ELSE n_features)
        kept == {c \in components : c <= n_components}
    IN  IF n_components < 0 \/ n_components > Cardinality(components)
        THEN [raised |-> "ValueError", shape |-> <<0, 0>>]
        ELSE [raised |-> "", shape |-> <<n_samples, Cardinality(kept)>>]

IdleReduce == [status |-> "idle", shape |-> <<0, 0>>, n_components |-> 0,
               raised |-> "", X_pca |-> <<0, 0>>]

\* a call perform_pca(X, n_components) and what it gave: the shape of X_pca, or
\* the exception
PerformPca(shape, n_components) ==
    /\ reduce.status = "idle"
    /\ LET result == perform_pca(shape, n_components)
       IN  reduce' = [status |-> IF result.raised = "" THEN "returned" ELSE "raised",
                      shape |-> shape,
                      n_components |-> n_components,
                      raised |-> result.raised,
                      X_pca |-> result.shape]
    /\ UNCHANGED <<regVars, artifacts, monVars>>
    /\ UNCHANGED <<compare, drift, predict, preprocess, fit, density>>

ReduceDone ==
    /\ reduce.status # "idle"
    /\ reduce' = IdleReduce
    /\ UNCHANGED <<regVars, artifacts, monVars>>
    /\ UNCHANGED <<compare, drift, predict, preprocess, fit, density>>

(* ========================== specifications ============================ *)

InitRegistry ==
    /\ clock = 0
    /\ model_versions = <<>>
    /\ customer_segments = {}
    /\ artifacts = [f \in Range(ArtifactFiles) |-> None]
    /\ train = [run |-> 0, user_id |-> None, kmeans |-> None, dbscan |-> None,
                pc |-> "idle"]
    /\ lastSave = [model_version_id |-> None, written |-> 0, returned |-> TRUE]
    /\ reader = [model_type |-> "", latest_model |-> None, status |-> 0]
    /\ health = IdleHealth
    /\ compare = IdleCompare
    /\ drift = IdleDrift
    /\ predict = IdlePredict
    /\ preprocess = IdlePreprocess
    /\ density = IdleDensity
    /\ reduce = IdleReduce

\* a deployment without config/monitor_config.json
Init ==
    /\ InitRegistry
    /\ config_file = [exists |-> FALSE, content |-> EmptyDict]
    /\ monitor = ModelMonitorInit(config_file)
    /\ fit = IdleFit

\* api.py: monitor = ModelMonitor(), whatever the deployment's config file holds
InitConfigured ==
    /\ InitRegistry
    /\ config_file \in ConfigFiles
    /\ monitor = ModelMonitorInit(config_file)
    /\ fit = IdleFit

\* a ModelMonitor whose owner assigned alert_recipients on the object
InitAssigned ==
    /\ InitRegistry
    /\ config_file \in ConfigFiles
    /\ \E rs \in {<<"ops">>, <<"ops", "lead">>} :
          monitor = [ModelMonitorInit(config_file) EXCEPT !.alert_recipients = rs]
    /\ fit = IdleFit

\* the dataset of the training runs, whatever it is, projected
InitFit ==
    /\ InitRegistry
    /\ config_file = [exists |-> FALSE, content |-> EmptyDict]
    /\ monitor = ModelMonitorInit(config_file)
    /\ \E X \in Matrices : fit = [X_pca |-> X, results |-> <<>>]

\* train_models, step by step
Train ==
    \/ \E user_id \in UserIds, failAt \in 0..(Len(ArtifactFiles) + 1) :
          TrainFit(user_id, failAt)
    \/ \E kind \in Kinds, ok \in BOOLEAN : SaveModelVersion(kind, ok)
    \/ \E kind \in Kinds, written \in 0..NumCustomers, fails \in BOOLEAN :
          SaveCustomerSegments(kind, written, fails)

\* the training process alone
NextWriters ==
    \/ Train
    \/ Tick

\* the training process and the API's readers of the registry
Next ==
    \/ Train
    \/ Tick
    \/ \E kind \in Kinds, ok \in BOOLEAN : GetSegments(kind, ok)

NextMonitor ==
    \/ \E failAt \in 0..(Len(ArtifactFiles) + 1) : TrainFit(None, failAt)
    \/ \E model_type \in Kinds, current_columns \in ColumnSets,
          reference_columns \in ColumnSets :
          CheckModelHealth(model_type, current_columns, reference_columns)
    \/ HealthDone

\* the monitor's two comparisons called directly, one call at a time
NextDrift ==
    \/ /\ compare.status = "idle" /\ drift.status = "idle"
       /\ \E current_data \in Frames, reference_data \in Frames :
             DetectDataDrift(current_data, reference_data)
    \/ DriftDone
    \/ /\ drift.status = "idle" /\ compare.status = "idle"
       /\ \E current_predictions \in LabelSeqs(LabelValues),
             reference_predictions \in LabelSeqs(LabelValues) :
             MonitorModelPerformance(current_predictions, reference_predictions)
    \/ CompareDone

\* the API process serving /predict and /monitor/drift (its handlers run one at a
\* time on the event loop) while train_models runs as a script
NextServe ==
    \/ \E failAt \in 0..(Len(ArtifactFiles) + 1) : TrainFit(None, failAt)
    \/ /\ health.status = "idle" /\ predict.status = "idle"
       /\ \E model_type \in Kinds, columns \in ColumnSets : Predict(model_type, columns)
    \/ PredictDone
    \/ /\ predict.status = "idle" /\ health.status = "idle"
       /\ \E model_type \in Kinds, current_columns \in ColumnSets,
             reference_columns \in ColumnSets :
             CheckModelHealth(model_type, current_columns, reference_columns)
    \/ HealthDone

NextPreprocess ==
    \/ /\ preprocess.status = "idle"
       /\ \E df \in DataFrames : PreprocessData(df)
    \/ PreprocessDone

\* training runs on one dataset, as far as the fits and their scores
NextFit == FitModels

\* perform_dbscan called again and again on one dataset, with the min_samples of
\* the first call and one eps or another
NextDensity ==
    \E radius \in EpsValues, minimum \in MinSamplesValues :
        /\ density.current # NoCall => minimum = density.current.min_samples
        /\ PerformDbscan(radius, minimum)

NextReduce ==
    \/ /\ reduce.status = "idle"
       /\ \E shape \in Shapes, n_components \in ComponentCounts :
             PerformPca(shape, n_components)
    \/ ReduceDone

NextCompare ==
    \/ \E current_predictions \in LabelSeqs(LabelValues),
          reference_predictions \in LabelSeqs(LabelValues) :
          MonitorModelPerformance(current_predictions, reference_predictions)
    \/ CompareDone

Spec == Init /\ [][Next]_vars
SpecWriters == Init /\ [][NextWriters]_vars
SpecMonitor == InitConfigured /\ [][NextMonitor]_vars
SpecAssigned == InitAssigned /\ [][NextMonitor]_vars
SpecCompare == Init /\ [][NextCompare]_vars
SpecDrift == Init /\ [][NextDrift]_vars
SpecServe == Init /\ [][NextServe]_vars
SpecPreprocess == Init /\ [][NextPreprocess]_vars
SpecFit == InitFit /\ [][NextFit]_vars
SpecDensity == InitFit /\ [][NextDensity]_vars
SpecReduce == Init /\ [][NextReduce]_vars

(* ============================== claims ================================ *)

\* C1: save_customer_segments is all-or-nothing.  When the call has failed, whether
\* before the first row, after some rows or at the commit, the registry holds no
\* assignment row of the model version the batch was for.
C1_AllOrNothing ==
    ~lastSave.returned => SegmentsOf(lastSave.model_version_id) = {}

\* a save that failed after some but not all rows of its batch were written
C1_Witness ==
    /\ ~lastSave.returned
    /\ lastSave.model_version_id # None
    /\ lastSave.written > 0
    /\ lastSave.written < NumCustomers

\* C2: a reader that has obtained the latest version of a kind finds all of that
\* version's assignment rows in the registry (the version row and its rows become
\* visible in one step).
C2_ReaderSeesCompleteVersion ==
    reader.latest_model # None =>
        Cardinality(SegmentsOf(reader.latest_model)) = NumCustomers

\* C3: save_model_version never overwrites a prior version.  In every step, each
\* row of model_versions is still there afterwards, under the same id, with the
\* same version string, kind, metrics, timestamp and creator.
C3_NeverOverwrites ==
    [][\A id \in 1..Len(model_versions) :
          /\ id <= Len(model_versions')
          /\ model_versions'[id] = model_versions[id]]_vars

\* the first run's version of a kind is still in the table, with its own metrics,
\* after the second run saved a version of the same kind
C3_Witness ==
    \E i, j \in 1..Len(model_versions) :
        /\ i < j
        /\ model_versions[i].model_type = model_versions[j].model_type
        /\ model_versions[i].performance_metrics = 1
        /\ model_versions[j].performance_metrics = 2

\* C4: whenever the latest version of a kind is looked up, the answer is the version
\* of that kind created last (the highest id), also among versions with the same
\* timestamp, and it is None exactly when no version of that kind was ever saved.
C4_LatestIsLastCreated ==
    [][reader' # reader =>
          reader'.latest_model =
              IF RowsOfKind(reader'.model_type) = {} THEN None
              ELSE Maximum(RowsOfKind(reader'.model_type))]_vars

\* the alert_recipients the monitor configuration lists
ConfiguredRecipients == DictGet(config_file.content, "alert_recipients", <<>>)

\* the drift_threshold the monitor configuration gives, 0.05 if it gives none
ConfiguredThreshold ==
    DictGet(config_file.content, "drift_threshold", DefaultDriftThreshold)

\* C5: when a step of check_model_health fails the call raises, and by then a
\* failure alert has been attempted to every configured recipient.
C5_FailureAlertsAttempted ==
    /\ health.failed_step # "" => health.status = "raised"
    /\ health.status = "raised" => health.system_alerts = ConfiguredRecipients

C7_OverallFlagIffAnyFeature ==
    health.status = "returned" =>
        (health.significant_drift <=>
            \E f \in DOMAIN health.drift_metrics : health.drift_metrics[f].drift_detected)

\* a returned result whose flag is set although one feature shows no drift
C7_Witness ==
    /\ health.status = "returned"
    /\ health.significant_drift
    /\ \E f \in DOMAIN health.drift_metrics : ~health.drift_metrics[f].drift_detected

\* C8: there is one report per requested feature, and a feature is flagged exactly
\* when its significance is strictly below the configured drift_threshold (0.05 if
\* none is configured).
C8_FlagByConfiguredThreshold ==
    health.status = "returned" =>
        /\ DOMAIN health.drift_metrics = Features
        /\ \A f \in Features :
              health.drift_metrics[f].drift_detected
                  <=> health.drift_metrics[f].p_value < ConfiguredThreshold

\* C9: label sequences of different lengths make monitor_model_performance fail with
\* MisalignedBatchError; no performance delta is returned for them.
C9_MisalignedBatchFails ==
    (/\ compare.status # "idle"
     /\ Len(compare.current_predictions) # Len(compare.reference_predictions))
        => (compare.status = "raised" /\ compare.result.raised = "MisalignedBatchError")

\* C10: for label sequences of equal length that contain the noise label -1,
\* monitor_model_performance returns its metrics instead of failing.
C10_NoiseLabelAccepted ==
    (/\ compare.status # "idle"
     /\ Len(compare.current_predictions) = Len(compare.reference_predictions)
     /\ -1 \in Range(compare.current_predictions) \cup Range(compare.reference_predictions))
        => compare.status = "returned"

\* C11: given identical reference and current batches, detect_data_drift reports
\* drift_detected = FALSE for every feature, and monitor_model_performance returns
\* a delta of zero: complete agreement and a label-distribution discrepancy of 0.
C11_IdenticalBatchesNoDrift ==
    /\ (drift.status # "idle" /\ drift.current_data = drift.reference_data) =>
          /\ drift.status = "returned"
          /\ \A f \in DOMAIN drift.drift_metrics : ~drift.drift_metrics[f].drift_detected
    /\ (compare.status # "idle"
            /\ compare.current_predictions = compare.reference_predictions) =>
          /\ compare.status = "returned"
          /\ compare.result.accuracy[1] = compare.result.accuracy[2]
          /\ compare.result.distribution_difference[1] = 0

\* C12: with the default threshold, a feature whose reference values are
\* [10,12,11,13,9] and whose current values are [50,52,51,53,49] is reported with
\* drift_detected = TRUE.
C12_DisjointSamplesDrift ==
    \A f \in DOMAIN drift.current_data :
        (/\ drift.status # "idle"
         /\ drift.reference_data[f] = ReferenceScenario
         /\ drift.current_data[f] = CurrentScenario
         /\ monitor.drift_threshold = DefaultDriftThreshold)
            => (drift.status = "returned" /\ drift.drift_metrics[f].drift_detected)

\* the scenario's feature has been compared and reported, next to a feature of the
\* same frames that shows no drift
C12_Witness ==
    /\ drift.status = "returned"
    /\ \E f \in DOMAIN drift.current_data :
          /\ drift.reference_data[f] = ReferenceScenario
          /\ drift.current_data[f] = CurrentScenario
          /\ drift.drift_metrics[f].drift_detected
    /\ \E f \in DOMAIN drift.drift_metrics : ~drift.drift_metrics[f].drift_detected

\* the artifacts an inference call for a kind loads, as they are on disk, come from
\* one training run
SameRun(model_type) ==
    /\ artifacts["scaler"] = artifacts["pca"]
    /\ artifacts["pca"] = artifacts[model_type]

\* C13: whenever an inference call (api.predict, check_model_health) returns a
\* result, the scaler, the PCA and the cluster model it loaded were written by the
\* same training run; a call that finds artifacts of different runs fails.
C13_ArtifactsOfOneRun ==
    [][/\ (predict' # predict /\ predict'.status = "returned")
              => SameRun(predict'.model_type)
       /\ (health' # health /\ health'.status = "returned")
              => SameRun(health'.model_type)]_vars

\* C14: re-training leaves the artifacts of every earlier ModelVersion loadable and
\* unchanged: for each version row there is still, at every moment, the artifact of
\* its kind written by the run that saved the row (the run is what the row's
\* metrics stand for).
C14_EarlierArtifactsKept ==
    \A id \in 1..Len(model_versions) :
        artifacts[model_versions[id].model_type] = model_versions[id].performance_metrics

\* C15: when train_models, called with a user_id, returns its result, both version
\* rows of the run and all assignment rows of both kinds are in the registry; a
\* failed save makes the call raise instead.
C15_TrainReturnsFullyPersisted ==
    (train.pc = "returned" /\ train.user_id # None) =>
        \A kind \in Kinds :
            /\ train[kind] # None
            /\ Cardinality(SegmentsOf(train[kind])) = NumCustomers

\* C16: every frame an inference call hands to the scaler carries exactly the
\* columns fitted at training time, the current and the reference batch alike.
C16_ScalerGetsFittedColumns ==
    \A columns \in predict.scaler_inputs \cup health.scaler_inputs : columns = Features

\* the features some row of a frame has no value for: the frame has no such column,
\* or the row's cell is missing
LackingFields(df) ==
    {f \in Features : f \notin df.columns \/ \E c \in DOMAIN df.rows : df.rows[c][f] = NaN}

\* C17: a batch in which some row lacks a required feature field is rejected:
\* preprocess_data fails with an error that names a lacking field (whatever the
\* error's class: the KeyError of a missing column counts as MissingFeatureError
\* here), and returns no matrix for the batch.
C17_MissingFieldRejected ==
    (preprocess.status # "idle" /\ LackingFields(preprocess.df) # {}) =>
        /\ preprocess.status = "raised"
        /\ preprocess.names \cap LackingFields(preprocess.df) # {}

RECURSIVE WithoutNoise(_, _)
WithoutNoise(s, labels) ==
    IF Len(s) = 0 THEN <<>>
    ELSE IF Head(labels) = -1 THEN WithoutNoise(Tail(s), Tail(labels))
    ELSE <<Head(s)>> \o WithoutNoise(Tail(s), Tail(labels))

\* C19: when the density labels of a run contain noise, the silhouette score the
\* run computed for the density model is the silhouette coefficient of the
\* non-noise rows alone (where that coefficient exists: two clusters or more).
C19_SilhouetteWithoutNoise ==
    \A r \in DOMAIN fit.results :
        LET over_clusters ==
                silhouette_score(
                    WithoutNoise(fit.X_pca, fit.results[r].dbscan_labels),
                    WithoutNoise(fit.results[r].dbscan_labels,
                                 fit.results[r].dbscan_labels))
        IN  (/\ fit.results[r].raised = ""
             /\ -1 \in Range(fit.results[r].dbscan_labels)
             /\ over_clusters.raised = "")
                => fit.results[r].dbscan_score = over_clusters.value

\* C20: no caller-facing inference call for the density kind fails at a separate
\* predict operation on the density model; with the artifacts there and the
\* fitted columns supplied it returns labels.
C20_DensityNeverPredicts ==
    /\ predict.failed_step # "model.predict"
    /\ health.failed_step # "model.predict"

\* C21: when check_model_health returns with significant_drift set, a drift alert
\* was attempted once for each recipient the monitor configuration lists under
\* alert_recipients, in their order; when it returns with the flag unset, no drift
\* alert was sent.
C21_DriftAlertPerRecipient ==
    health.status = "returned" =>
        health.drift_alerts = IF health.significant_drift THEN ConfiguredRecipients
                              ELSE <<>>

\* rows perform_dbscan labelled noise
NoiseCount(labels) == Cardinality(RowsLabelled(labels, -1))

\* C22: of two perform_dbscan calls on the same data with the same min_samples,
\* the one with the larger eps labels no more rows -1 than the other; and in every
\* call a row is labelled -1 exactly when it is no core row and has no core row
\* within eps.
C22_NoiseMonotoneInEps ==
    /\ (/\ density.previous.labels # <<>>
        /\ density.previous.min_samples = density.current.min_samples
        /\ density.previous.eps <= density.current.eps)
          => NoiseCount(density.current.labels) <= NoiseCount(density.previous.labels)
    /\ (/\ density.previous.labels # <<>>
        /\ density.previous.min_samples = density.current.min_samples
        /\ density.previous.eps >= density.current.eps)
          => NoiseCount(density.current.labels) >= NoiseCount(density.previous.labels)
    /\ \A call \in {density.previous, density.current} :
          call.labels # <<>> =>
              \A i \in DOMAIN fit.X_pca :
                  call.labels[i] = -1 <=>
                      LET core == CoreRows(fit.X_pca, call.eps, call.min_samples)
                      IN  /\ i \notin core
                          /\ \A j \in core : Abs(fit.X_pca[i] - fit.X_pca[j]) > call.eps

\* eps was raised between two calls with the same min_samples and rows left the
\* noise, while some rows stayed noise and some row that is not core was taken
\* into a cluster
C22_Witness ==
    /\ density.previous.labels # <<>>
    /\ density.previous.min_samples = density.current.min_samples
    /\ density.previous.eps < density.current.eps
    /\ NoiseCount(density.current.labels) < NoiseCount(density.previous.labels)
    /\ NoiseCount(density.current.labels) > 0
    /\ \E i \in DOMAIN fit.X_pca :
          /\ density.current.labels[i] # -1
          /\ i \notin CoreRows(fit.X_pca, density.current.eps, density.current.min_samples)

\* C23: perform_pca on a matrix with at least n_components columns, whatever its
\* number of rows, returns a matrix with exactly n_components columns; and an
\* n_components below 1 or above the number of columns makes it fail (with
\* whatever class of error) instead of returning a matrix.
C23_ReducerDimensions ==
    reduce.status # "idle" =>
        /\ (1 <= reduce.n_components /\ reduce.n_components <= reduce.shape[2])
              => (reduce.status = "returned" /\ reduce.X_pca[2] = reduce.n_components)
        /\ (reduce.n_components < 1 \/ reduce.n_components > reduce.shape[2])
              => reduce.status = "raised"

\* C24: a train_models call that fails leaves every artifact file as it was before
\* the call: none of scaler, PCA, k-means, DBSCAN and feature list was replaced by
\* the failed run.
C24_FailedRunLeavesArtifacts ==
    [][(train' # train /\ train'.pc = "raised") => artifacts' = artifacts]_vars

\* C25: once a training run has completed, with or without a user_id and whether
\* or not its registry saves succeeded, the artifacts api.predict loads for a kind
\* (the model, the scaler, the PCA and the feature list) were written by the run
\* that saved the version get_latest_model_version returns for that kind.
C25_ArtifactsOfLatestVersion ==
    train.pc = "returned" =>
        \A kind \in Kinds :
            \A latest_model \in get_latest_model_version(kind) \ {None} :
                \A f \in {kind, "scaler", "pca", "features"} :
                    artifacts[f] = model_versions[latest_model].performance_metrics

\* C26: no two rows of model_versions of the same kind carry the same version
\* string, however close in time the runs that saved them.
C26_VersionUniquePerKind ==
    \A i, j \in 1..Len(model_versions) :
        (i # j /\ model_versions[i].model_type = model_versions[j].model_type)
            => model_versions[i].version # model_versions[j].version

====
